---------------------------- MODULE Spec2Model ----------------------------
(***************************************************************************)
(* Model of the Sudoku solving engine (utils/sudokuSolver):                *)
(*   - SudokuSolver: constraint sets, getValidNumbers, findBestCell,       *)
(*     backtrack / solve, isValidBoard;                                    *)
(*   - autoSolveCells: candidate map, naked singles, hidden singles,       *)
(*     box/line reduction, round loop with maxIterations.                  *)
(* Symbols '1'..'9' are the integers 1..9, null is 0.  A cell (i, j) is    *)
(* the index 9*i + j of 0..80.                                             *)
(***************************************************************************)
EXTENDS Integers, Sequences, FiniteSets, TLC

Sym   == 1..9
Cells == 0..80
Idx   == 0..8

RowOf(k) == k \div 9
ColOf(k) == k % 9
Cell(i, j) == 9 * i + j

\* getSquareIndex numbering the blocks column by column
getSquareIndex_byColumn(row, col) == (col \div 3) * 3 + (row \div 3)

\* SudokuSolver.getSquareIndex
getSquareIndex(row, col) == (row \div 3) * 3 + (col \div 3)

SquareOf(k) == getSquareIndex(RowOf(k), ColOf(k))

\* the loop `for r in startRow..startRow+2, for c in startCol..startCol+2`
SquareCells(squareIndex) ==
  LET startRow == (squareIndex \div 3) * 3
      startCol == (squareIndex % 3) * 3
  IN  { Cell(r, c) : r \in startRow..(startRow + 2), c \in startCol..(startCol + 2) }

RowCells(row) == { Cell(row, c) : c \in Idx }
ColCells(col) == { Cell(r, col) : r \in Idx }

EmptySets == [i \in Idx |-> {}]

(***************************************************************************)
(* Boards.  A SudokuBoard is a function Cells -> 0..9; a                   *)
(* SudokuBoardWithSource is a function Cells -> SudokuCell.                *)
(***************************************************************************)
SudokuCell(v, s) == [value |-> v, source |-> s]

boardWithSourceToSimple(board) == [k \in Cells |-> board[k].value]

(***************************************************************************)
(* SudokuSolver.isValidBoard: one row-major scan with three families of    *)
(* sets, returning false at the first symbol already seen in its row,      *)
(* column or square.                                                       *)
(***************************************************************************)
\* isValidRow with the column test left out
RECURSIVE isValidRow_noCols(_, _, _, _)
isValidRow_noCols(board, i, j, seen) ==
  IF j > 8 \/ ~ seen.ok THEN seen
  ELSE LET num == board[Cell(i, j)]
           squareIndex == (i \div 3) * 3 + (j \div 3)
       IN  IF num = 0 THEN isValidRow_noCols(board, i, j + 1, seen)
           ELSE IF num \in seen.rows[i] \/ num \in seen.squares[squareIndex]
                THEN [seen EXCEPT !.ok = FALSE]
                ELSE isValidRow_noCols(board, i, j + 1,
                                       [seen EXCEPT !.rows[i] = @ \cup {num},
                                                    !.cols[j] = @ \cup {num},
                                                    !.squares[squareIndex] = @ \cup {num}])

\* the inner loop over j for row i; seen = [ok, rows, cols, squares]
RECURSIVE isValidRow(_, _, _, _)
isValidRow(board, i, j, seen) ==
  IF j > 8 \/ ~ seen.ok THEN seen
  ELSE LET num == board[Cell(i, j)]
           squareIndex == (i \div 3) * 3 + (j \div 3)
       IN  IF num = 0 THEN isValidRow(board, i, j + 1, seen)
           ELSE IF \/ num \in seen.rows[i]
                   \/ num \in seen.cols[j]
                   \/ num \in seen.squares[squareIndex]
                THEN [seen EXCEPT !.ok = FALSE]
                ELSE isValidRow(board, i, j + 1,
                                [seen EXCEPT !.rows[i] = @ \cup {num},
                                             !.cols[j] = @ \cup {num},
                                             !.squares[squareIndex] = @ \cup {num}])

\* the outer loop over i
RECURSIVE isValidScan(_, _, _)
isValidScan(board, i, seen) ==
  IF ~ seen.ok THEN FALSE
  ELSE IF i > 8 THEN TRUE
  ELSE isValidScan(board, i + 1, isValidRow(board, i, 0, seen))

\* isValidBoard accepting every grid
isValidBoard_lenient(board) == TRUE

isValidBoard(board) ==
  isValidScan(board, 0, [ok |-> TRUE, rows |-> EmptySets, cols |-> EmptySets,
                         squares |-> EmptySets])

(***************************************************************************)
(* SudokuSolver: constructor and initializeConstraints.  A solver is a     *)
(* record of its private board and its three families of sets.            *)
(***************************************************************************)
initializeConstraints(board) ==
  [ board   |-> board,
    rows    |-> [i \in Idx |-> { board[k] : k \in { c \in RowCells(i) : board[c] # 0 } }],
    cols    |-> [j \in Idx |-> { board[k] : k \in { c \in ColCells(j) : board[c] # 0 } }],
    squares |-> [s \in Idx |-> { board[k] : k \in { c \in Cells : SquareOf(c) = s /\ board[c] # 0 } }] ]

NewSolver(board) == initializeConstraints(board)

\* getValidNumbers with the square set left out
getValidNumbers_noSquare(solver, row, col) ==
  { num \in Sym : num \notin (solver.rows[row] \cup solver.cols[col]) }

\* SudokuSolver.getValidNumbers, as the set of the returned symbols
getValidNumbers(solver, row, col) ==
  LET used == solver.rows[row] \cup solver.cols[col]
                \cup solver.squares[getSquareIndex(row, col)]
  IN  { num \in Sym : num \notin used }


(***************************************************************************)
(* autoSolveCells.  The call frame is a record:                            *)
(*   newBoard, candidates (a function whose domain is the Map's key set),  *)
(*   solver, hasChanges, iterationChanges, maxIterations, and pos, the     *)
(*   index of the next loop iteration of the current round that changes    *)
(*   something (the iterations before it leave the frame as it is):        *)
(*     0..80     naked single at cell pos                                   *)
(*     81..161   hidden single, row (pos-81) \div 9, symbol (pos-81)%9+1   *)
(*     162..242  hidden single, column                                      *)
(*     243..323  hidden single, square                                      *)
(*     324..404  box/line reduction, square and symbol                      *)
(*     405       the loop head of `while (iterationChanges && ...)`        *)
(***************************************************************************)
maxIterationsInit == 10
RoundEnd == 405

\* initializeCandidates
initializeCandidates(newBoard, solver) ==
  [k \in { c \in Cells : newBoard[c].value = 0 } |->
      getValidNumbers(solver, RowOf(k), ColOf(k))]

\* removeCandidate that removes nothing
removeCandidate_kept(candidates, k, num) == candidates

\* removeCandidate: the map after the call (the call returns true iff it differs)
removeCandidate(candidates, k, num) ==
  IF k \in DOMAIN candidates /\ num \in candidates[k]
  THEN [candidates EXCEPT ![k] = @ \ {num}]
  ELSE candidates

\* the cells updateCell visits, in the order of its loops
PeerSeq(row, col) ==
  LET squareIndex == getSquareIndex(row, col)
      startRow == (squareIndex \div 3) * 3
      startCol == (squareIndex % 3) * 3
  IN  [n \in 1..27 |->
         IF n <= 18
         THEN IF n % 2 = 1 THEN Cell(row, (n - 1) \div 2) ELSE Cell((n - 2) \div 2, col)
         ELSE Cell(startRow + ((n - 19) \div 3), startCol + ((n - 19) % 3))]

RECURSIVE removeAll(_, _, _, _)
removeAll(candidates, cells, n, num) ==
  IF n > Len(cells) THEN candidates
  ELSE removeAll(removeCandidate(candidates, cells[n], num), cells, n + 1, num)

\* deleteKey leaving the entry in the map
deleteKey_kept(candidates, k) == candidates

\* the key set of the map after candidates.delete(key)
deleteKey(candidates, k) == [c \in (DOMAIN candidates) \ {k} |-> candidates[c]]

\* updateCell tagging the cell user
updateCell_user(st, row, col, value) ==
  LET k == Cell(row, col)
      sq == getSquareIndex(row, col)
  IN  [st EXCEPT
         !.newBoard[k] = SudokuCell(value, "user"),
         !.hasChanges = TRUE,
         !.iterationChanges = TRUE,
         !.solver.board[k] = value,
         !.solver.rows[row] = @ \cup {value},
         !.solver.cols[col] = @ \cup {value},
         !.solver.squares[sq] = @ \cup {value},
         !.candidates = removeAll(deleteKey(st.candidates, k), PeerSeq(row, col), 1, value)]

\* autoSolveCells.updateCell
updateCell(st, row, col, value) ==
  LET k == Cell(row, col)
      sq == getSquareIndex(row, col)
  IN  [st EXCEPT
         !.newBoard[k] = SudokuCell(value, "system"),
         !.hasChanges = TRUE,
         !.iterationChanges = TRUE,
         !.solver.board[k] = value,
         !.solver.rows[row] = @ \cup {value},
         !.solver.cols[col] = @ \cup {value},
         !.solver.squares[sq] = @ \cup {value},
         !.candidates = removeAll(deleteKey(st.candidates, k), PeerSeq(row, col), 1, value)]

\* cells of a unit that are empty and still list num as a candidate
Possible(st, unit, num) ==
  { k \in unit : st.newBoard[k].value = 0
                 /\ k \in DOMAIN st.candidates /\ num \in st.candidates[k] }

\* Technique 1, one iteration of the cell loop: its test ...
NakedSingleFires(st, k) ==
  /\ st.newBoard[k].value = 0
  /\ k \in DOMAIN st.candidates
  /\ Cardinality(st.candidates[k]) = 1

\* ... and the iteration
NakedSingleAt(st, k) ==
  IF NakedSingleFires(st, k)
  THEN updateCell(st, RowOf(k), ColOf(k), CHOOSE v \in st.candidates[k] : TRUE)
  ELSE st

\* Technique 2, one iteration of the (unit, num) loop: its test ...
HiddenFires(st, placed, unit, num) ==
  /\ num \notin placed
  /\ Cardinality(Possible(st, unit, num)) = 1

\* ... and the iteration, for a row, a column and a square
HiddenRowAt(st, row, num) ==
  IF HiddenFires(st, st.solver.rows[row], RowCells(row), num)
  THEN LET possibleCols == Possible(st, RowCells(row), num)
       IN  updateCell(st, row, ColOf(CHOOSE k \in possibleCols : TRUE), num)
  ELSE st

HiddenColAt(st, col, num) ==
  IF HiddenFires(st, st.solver.cols[col], ColCells(col), num)
  THEN LET possibleRows == Possible(st, ColCells(col), num)
       IN  updateCell(st, RowOf(CHOOSE k \in possibleRows : TRUE), col, num)
  ELSE st

HiddenSquareAt(st, squareIndex, num) ==
  IF HiddenFires(st, st.solver.squares[squareIndex], SquareCells(squareIndex), num)
  THEN LET possibleCells == Possible(st, SquareCells(squareIndex), num)
           k == CHOOSE c \in possibleCells : TRUE
       IN  updateCell(st, RowOf(k), ColOf(k), num)
  ELSE st

\* the pruning loop of Technique 3 over the cells of a line outside the square
RECURSIVE pruneLine(_, _, _, _)
pruneLine(st, cells, n, num) ==
  IF n > Len(cells) THEN st
  ELSE LET k == cells[n]
           pruned == removeCandidate(st.candidates, k, num)
       IN  IF st.newBoard[k].value = 0 /\ pruned # st.candidates
           THEN pruneLine([st EXCEPT !.candidates = pruned,
                                     !.iterationChanges = TRUE,
                                     !.hasChanges = TRUE], cells, n + 1, num)
           ELSE pruneLine(st, cells, n + 1, num)

\* RowOutside without the test that skips the columns of the square
RowOutside_all(targetRow, startCol) == [n \in 1..9 |-> Cell(targetRow, n - 1)]

\* the cells of a row (column) outside the columns (rows) of the square
RowOutside(targetRow, startCol) ==
  LET cs == [n \in 1..6 |-> IF n - 1 < startCol THEN n - 1 ELSE n + 2]
  IN  [n \in 1..6 |-> Cell(targetRow, cs[n])]

ColOutside(targetCol, startRow) ==
  LET rs == [n \in 1..6 |-> IF n - 1 < startRow THEN n - 1 ELSE n + 2]
  IN  [n \in 1..6 |-> Cell(rs[n], targetCol)]

BoxLineRows(st, squareIndex, num) ==
  LET startCol == (squareIndex % 3) * 3
      rowsWithPossibility == { RowOf(k) : k \in Possible(st, SquareCells(squareIndex), num) }
  IN  IF Cardinality(rowsWithPossibility) = 1
      THEN pruneLine(st, RowOutside(CHOOSE r \in rowsWithPossibility : TRUE, startCol), 1, num)
      ELSE st

BoxLineCols(st, squareIndex, num) ==
  LET startRow == (squareIndex \div 3) * 3
      colsWithPossibility == { ColOf(k) : k \in Possible(st, SquareCells(squareIndex), num) }
  IN  IF Cardinality(colsWithPossibility) = 1
      THEN pruneLine(st, ColOutside(CHOOSE c \in colsWithPossibility : TRUE, startRow), 1, num)
      ELSE st

\* Technique 3, one iteration of the (squareIndex, num) loop
BoxLineAt(st, squareIndex, num) ==
  IF num \in st.solver.squares[squareIndex] THEN st
  ELSE BoxLineCols(BoxLineRows(st, squareIndex, num), squareIndex, num)

\* the loop iteration at position q of a round
TechniqueAt(st, q) ==
  LET u == (q % 81) \div 9
      num == ((q % 81) % 9) + 1
  IN  IF q < 81 THEN NakedSingleAt(st, q)
      ELSE IF q < 162 THEN HiddenRowAt(st, u, num)
      ELSE IF q < 243 THEN HiddenColAt(st, u, num)
      ELSE IF q < 324 THEN HiddenSquareAt(st, u, num)
      ELSE BoxLineAt(st, u, num)

\* whether the loop iteration at position q changes anything
Fires(st, q) ==
  LET u == (q % 81) \div 9
      num == ((q % 81) % 9) + 1
  IN  IF q < 81 THEN NakedSingleFires(st, q)
      ELSE IF q < 162 THEN HiddenFires(st, st.solver.rows[u], RowCells(u), num)
      ELSE IF q < 243 THEN HiddenFires(st, st.solver.cols[u], ColCells(u), num)
      ELSE IF q < 324 THEN HiddenFires(st, st.solver.squares[u], SquareCells(u), num)
      ELSE BoxLineAt(st, u, num).candidates # st.candidates

\* the first iteration from q on that changes something, RoundEnd when none does
\* (the scan proceeds by stretches of nine iterations)
RECURSIVE NextEffective(_, _)
NextEffective(st, q) ==
  IF q >= RoundEnd THEN RoundEnd
  ELSE LET stretch == q..(((q \div 9) + 1) * 9 - 1)
       IN  IF \E x \in stretch : Fires(st, x)
           THEN CHOOSE x \in stretch :
                  Fires(st, x) /\ \A y \in stretch : y < x => ~ Fires(st, y)
           ELSE NextEffective(st, ((q \div 9) + 1) * 9)

\* the frame after `const newBoard = board.map(...)` and initializeCandidates()
NewFrame(board) ==
  LET solver == NewSolver(boardWithSourceToSimple(board))
  IN  [ newBoard         |-> board,
        candidates       |-> initializeCandidates(board, solver),
        solver           |-> solver,
        hasChanges       |-> FALSE,
        iterationChanges |-> TRUE,
        maxIterations    |-> maxIterationsInit,
        pos              |-> RoundEnd ]


(***************************************************************************)
(* SudokuSolver.findBestCell: row-major scan keeping the first cell with   *)
(* strictly fewer options, returning at once on a cell with one option.    *)
(* The result is NoCell (null) or [row, col, options].                     *)
(***************************************************************************)
NoCell == [row |-> 9, col |-> 9, options |-> {}]

\* findBestRow keeping the last cell among those with the fewest options
RECURSIVE findBestRow_lastTie(_, _, _, _)
findBestRow_lastTie(solver, i, j, best) ==
  IF j > 8 \/ best.minOptions = 1 THEN best
  ELSE IF solver.board[Cell(i, j)] # 0 THEN findBestRow_lastTie(solver, i, j + 1, best)
  ELSE LET options == getValidNumbers(solver, i, j)
           n == Cardinality(options)
       IN  IF n <= best.minOptions
           THEN findBestRow_lastTie(solver, i, j + 1,
                                    [cell |-> [row |-> i, col |-> j, options |-> options],
                                     minOptions |-> n])
           ELSE findBestRow_lastTie(solver, i, j + 1, best)

\* the inner loop over j for row i; best = [cell, minOptions]
RECURSIVE findBestRow(_, _, _, _)
findBestRow(solver, i, j, best) ==
  IF j > 8 \/ best.minOptions = 1 THEN best
  ELSE IF solver.board[Cell(i, j)] # 0 THEN findBestRow(solver, i, j + 1, best)
  ELSE LET options == getValidNumbers(solver, i, j)
           n == Cardinality(options)
       IN  IF n < best.minOptions
           THEN findBestRow(solver, i, j + 1,
                            [cell |-> [row |-> i, col |-> j, options |-> options],
                             minOptions |-> n])
           ELSE findBestRow(solver, i, j + 1, best)

\* the outer loop over i; a cell with one option is returned at once
RECURSIVE findBestScan(_, _, _)
findBestScan(solver, i, best) ==
  IF i > 8 \/ best.minOptions = 1 THEN best.cell
  ELSE findBestScan(solver, i + 1, findBestRow(solver, i, 0, best))

findBestCell(solver) == findBestScan(solver, 0, [cell |-> NoCell, minOptions |-> 10])

\* the options of a cell in the order of the filter over '1'..'9'
RECURSIVE OrderedFrom(_, _)
OrderedFrom(options, n) ==
  IF n > 9 THEN << >>
  ELSE IF n \in options THEN << n >> \o OrderedFrom(options, n + 1)
  ELSE OrderedFrom(options, n + 1)

Ordered(options) == OrderedFrom(options, 1)

\* backtrack: the placement of num at (row, col) ...
place(solver, row, col, num) ==
  [solver EXCEPT !.board[Cell(row, col)] = num,
                 !.rows[row] = @ \cup {num},
                 !.cols[col] = @ \cup {num},
                 !.squares[getSquareIndex(row, col)] = @ \cup {num}]

\* the undo leaving num in the cell
unplace_keepCell(solver, row, col, num) ==
  [solver EXCEPT !.rows[row] = @ \ {num},
                 !.cols[col] = @ \ {num},
                 !.squares[getSquareIndex(row, col)] = @ \ {num}]

\* the undo leaving num in the row set
unplace_keepRow(solver, row, col, num) ==
  [solver EXCEPT !.board[Cell(row, col)] = 0,
                 !.cols[col] = @ \ {num},
                 !.squares[getSquareIndex(row, col)] = @ \ {num}]

\* ... and its undo ("desfaz a jogada")
unplace(solver, row, col, num) ==
  [solver EXCEPT !.board[Cell(row, col)] = 0,
                 !.rows[row] = @ \ {num},
                 !.cols[col] = @ \ {num},
                 !.squares[getSquareIndex(row, col)] = @ \ {num}]


(***************************************************************************)
(* Inputs: a list of grids, each changed by a bounded set of edits (a cell *)
(* cleared or set), every filled cell tagged user.                         *)
(***************************************************************************)
MaxEdits == 4

\* a complete valid grid
Solved ==
  << 1,2,3,4,5,6,7,8,9,
     4,5,6,7,8,9,1,2,3,
     7,8,9,1,2,3,4,5,6,
     2,3,1,6,7,4,8,9,5,
     8,7,5,9,1,2,3,6,4,
     6,9,4,5,3,8,2,1,7,
     3,1,7,2,6,5,9,4,8,
     5,4,2,8,9,7,6,3,1,
     9,6,8,3,4,1,5,7,2 >>

\* a valid grid with no completion (row 0 has no place for 6)
Stuck ==
  << 3,0,2,8,0,9,0,1,0,
     0,9,8,1,0,0,0,2,6,
     0,6,1,2,0,7,0,8,9,
     7,2,4,3,9,8,6,5,1,
     6,1,5,4,7,2,9,3,8,
     9,8,3,5,6,1,7,4,2,
     1,0,9,6,2,0,8,7,0,
     2,0,6,7,8,0,1,9,0,
     8,3,7,9,1,5,2,6,4 >>

\* the grid with no cell filled
Blank == [n \in 1..81 |-> 0]

\* a grid with 29 givens that naked and hidden singles complete
Sparse ==
  << 7,0,1,0,0,2,0,0,0,
     0,4,8,0,6,0,0,0,0,
     5,6,0,1,3,0,0,8,0,
     0,0,4,0,7,0,2,0,0,
     1,7,0,3,0,8,0,4,0,
     0,0,0,0,0,9,7,0,0,
     0,1,0,0,0,3,0,2,0,
     0,0,0,0,0,0,8,0,0,
     3,0,7,0,9,0,0,0,6 >>

\* the grids that are edited, and the grids that are taken as they are
Puzzles == << Solved, Stuck, Blank >>
Fixed   == << Sparse >>

\* the edits: cells cleared, cells set
Edits ==
  { <<0, 0>>, <<1, 0>>, <<3, 0>>, <<5, 0>>, <<27, 0>>, <<30, 0>>, <<32, 0>>, <<40, 0>>,
    <<0, 2>>, <<4, 5>>, <<40, 7>>, <<80, 9>> }

EditSets ==
  { E \in SUBSET Edits :
      /\ Cardinality(E) <= MaxEdits
      /\ \A e1, e2 \in E : e1[1] = e2[1] => e1 = e2 }

Edited(grid, E) ==
  [k \in Cells |->
     IF \E e \in E : e[1] = k THEN (CHOOSE e \in E : e[1] = k)[2] ELSE grid[k + 1]]

Tagged(simple) ==
  [k \in Cells |-> IF simple[k] = 0 THEN SudokuCell(0, "null")
                   ELSE SudokuCell(simple[k], "user")]

Inputs ==
  { Tagged(Edited(Puzzles[i], E)) : i \in 1..Len(Puzzles), E \in EditSets }
    \cup { Tagged(Edited(Fixed[i], {})) : i \in 1..Len(Fixed) }

EmptyBoard == [k \in Cells |-> SudokuCell(0, "null")]

(***************************************************************************)
(* State.  A run calls autoSolveCells on the input, calls it again on the  *)
(* board it returned (as the host does with setBoard), then constructs a   *)
(* SudokuSolver on the input and calls solve().                            *)
(***************************************************************************)
VARIABLES
  pc,        \* "idle", "prop" (inside autoSolveCells), "search" (inside solve), "done"
  input,     \* the board of the first call
  board,     \* the board passed to the current or next autoSolveCells call
  results,   \* what the finished autoSolveCells calls returned: [grid, same]
  frame,     \* the frame of the current or last autoSolveCells call
  searcher,  \* the SudokuSolver of solve()
  stack,     \* the active backtrack() calls below the current one: [row, col, options, i]
  mode,      \* "call": backtrack() is being entered; "ret": the last call returned false
  target,    \* in mode "call": what findBestCell() returned to the entered backtrack()
  out,       \* what solve() returned: status "none" (not yet), "grid" or "null"
  order,     \* the order of the passes of a round in a reordered run (CodeOrder: the code's)
  timer,     \* host: the 100 ms timer of the effect on `board` is pending
  edits      \* host: the number of handleCellChange calls so far

vars == << pc, input, board, results, frame, searcher, stack, mode, target, out,
          order, timer, edits >>

\* the passes of a round: 0 naked singles, 1..3 hidden singles in rows, columns
\* and squares, 4 box/line reduction, in the order of the code
CodeOrder == << 0, 1, 2, 3, 4 >>

MaxCalls == 2

Init ==
  /\ input \in Inputs
  /\ board = input
  /\ pc = "idle"
  /\ results = << >>
  /\ frame = [NewFrame(EmptyBoard) EXCEPT !.iterationChanges = FALSE]
  /\ searcher = NewSolver(boardWithSourceToSimple(EmptyBoard))
  /\ stack = << >>
  /\ mode = "call"
  /\ target = NoCell
  /\ out = [status |-> "none", grid |-> boardWithSourceToSimple(EmptyBoard)]
  /\ order = CodeOrder
  /\ timer = FALSE
  /\ edits = 0

otherVars == << order, timer, edits >>

searchVars == << searcher, stack, mode, target, out, otherVars >>

\* autoSolveCells entered with a board that fails isValidBoard: `return board`
AutoSolveRejected ==
  /\ pc = "idle" /\ Len(results) < MaxCalls
  /\ ~ isValidBoard(boardWithSourceToSimple(board))
  /\ results' = Append(results, [grid |-> board, same |-> TRUE])
  /\ UNCHANGED << pc, input, board, frame, searchVars >>

\* autoSolveCells entered with a valid board, up to the loop head
AutoSolveCall ==
  /\ pc = "idle" /\ Len(results) < MaxCalls
  /\ isValidBoard(boardWithSourceToSimple(board))
  /\ frame' = NewFrame(board)
  /\ pc' = "prop"
  /\ UNCHANGED << input, board, results, searchVars >>

\* the loop head, when the test passes
NextRound ==
  /\ pc = "prop" /\ frame.pos = RoundEnd
  /\ frame.iterationChanges /\ frame.maxIterations > 0
  /\ LET entered == [frame EXCEPT !.iterationChanges = FALSE,
                                   !.maxIterations = @ - 1]
     IN  frame' = [entered EXCEPT !.pos = NextEffective(entered, 0)]
  /\ UNCHANGED << pc, input, board, results, searchVars >>

\* the frame after iteration st.pos, at the next iteration that changes something
Advanced(st) ==
  LET after == TechniqueAt(st, st.pos)
  IN  [after EXCEPT !.pos = NextEffective(after, st.pos + 1)]

\* the next fill of the naked-single pass
NakedSingle ==
  /\ pc = "prop"
  /\ frame.pos < 81
  /\ frame' = Advanced(frame)
  /\ UNCHANGED << pc, input, board, results, searchVars >>

\* the next fill of the hidden-single passes
HiddenSingle ==
  /\ pc = "prop"
  /\ frame.pos >= 81 /\ frame.pos < 324
  /\ frame' = Advanced(frame)
  /\ UNCHANGED << pc, input, board, results, searchVars >>

\* the next pruning iteration of the box/line pass
BoxLineReduction ==
  /\ pc = "prop"
  /\ frame.pos >= 324 /\ frame.pos < RoundEnd
  /\ frame' = Advanced(frame)
  /\ UNCHANGED << pc, input, board, results, searchVars >>

\* the loop head, when the test fails: `return hasChanges ? newBoard : board`
AutoSolveReturn ==
  /\ pc = "prop" /\ frame.pos = RoundEnd
  /\ ~ (frame.iterationChanges /\ frame.maxIterations > 0)
  /\ LET r == IF frame.hasChanges THEN frame.newBoard ELSE board
     IN  /\ results' = Append(results, [grid |-> r, same |-> ~ frame.hasChanges])
         /\ board' = r
  /\ pc' = "idle"
  /\ UNCHANGED << input, frame, searchVars >>

propVars == << input, board, results, frame, otherVars >>

\* new SudokuSolver(input).solve(), up to findBestCell() in the first backtrack()
SolveCall ==
  /\ pc = "idle" /\ Len(results) = MaxCalls
  /\ searcher' = NewSolver(boardWithSourceToSimple(input))
  /\ target' = findBestCell(searcher')
  /\ stack' = << >>
  /\ mode' = "call"
  /\ pc' = "search"
  /\ UNCHANGED << propVars, out >>

\* backtrack() finds no empty cell: true is returned through every active call
BacktrackSolved ==
  /\ pc = "search" /\ mode = "call"
  /\ target = NoCell
  /\ out' = [status |-> "grid", grid |-> searcher.board]
  /\ stack' = << >>
  /\ pc' = "done"
  /\ UNCHANGED << propVars, searcher, mode, target >>

\* backtrack() places the first option of its cell and calls itself
BacktrackPlace ==
  /\ pc = "search" /\ mode = "call"
  /\ target # NoCell /\ target.options # {}
  /\ LET options == Ordered(target.options)
     IN  /\ searcher' = place(searcher, target.row, target.col, options[1])
         /\ stack' = Append(stack, [row |-> target.row, col |-> target.col,
                                    options |-> options, i |-> 1])
  /\ target' = findBestCell(searcher')
  /\ UNCHANGED << propVars, mode, pc, out >>

\* backtrack() has a cell with no option: the loop is empty, `return false`
BacktrackDeadEnd ==
  /\ pc = "search" /\ mode = "call"
  /\ target # NoCell /\ target.options = {}
  /\ mode' = "ret"
  /\ target' = NoCell
  /\ UNCHANGED << propVars, searcher, stack, pc, out >>

\* the recursive call returned false: undo, then try the next option
BacktrackRetry ==
  /\ pc = "search" /\ mode = "ret" /\ stack # << >>
  /\ LET top == stack[Len(stack)]
         undone == unplace(searcher, top.row, top.col, top.options[top.i])
     IN  /\ top.i < Len(top.options)
         /\ searcher' = place(undone, top.row, top.col, top.options[top.i + 1])
         /\ stack' = [stack EXCEPT ![Len(stack)].i = @ + 1]
  /\ target' = findBestCell(searcher')
  /\ mode' = "call"
  /\ UNCHANGED << propVars, pc, out >>

\* the recursive call returned false on the last option: undo, `return false`
BacktrackExhausted ==
  /\ pc = "search" /\ mode = "ret" /\ stack # << >>
  /\ LET top == stack[Len(stack)]
     IN  /\ top.i = Len(top.options)
         /\ searcher' = unplace(searcher, top.row, top.col, top.options[top.i])
         /\ stack' = SubSeq(stack, 1, Len(stack) - 1)
  /\ UNCHANGED << propVars, mode, target, pc, out >>

\* the outermost backtrack() returned false: solve() returns null
SolveNull ==
  /\ pc = "search" /\ mode = "ret" /\ stack = << >>
  /\ out' = [status |-> "null", grid |-> searcher.board]
  /\ pc' = "done"
  /\ UNCHANGED << propVars, searcher, stack, mode, target >>

Next ==
  \/ AutoSolveRejected
  \/ AutoSolveCall
  \/ NextRound
  \/ NakedSingle
  \/ HiddenSingle
  \/ BoxLineReduction
  \/ AutoSolveReturn
  \/ SolveCall
  \/ BacktrackSolved
  \/ BacktrackPlace
  \/ BacktrackDeadEnd
  \/ BacktrackRetry
  \/ BacktrackExhausted
  \/ SolveNull

Spec == Init /\ [][Next]_vars


(***************************************************************************)
(* Reference notions, stated on grids and independent of the code.         *)
(***************************************************************************)
Simple(b) == boardWithSourceToSimple(b)

SameUnit(k1, k2) ==
  \/ k1 \div 9 = k2 \div 9
  \/ k1 % 9 = k2 % 9
  \/ /\ (k1 \div 9) \div 3 = (k2 \div 9) \div 3
     /\ (k1 % 9) \div 3 = (k2 % 9) \div 3

\* the pairs of different cells that share a row, a column or a block
UnitPairs == { pr \in Cells \X Cells : pr[1] < pr[2] /\ SameUnit(pr[1], pr[2]) }

\* two different filled cells of one row, column or block hold the same symbol
HasDuplicate(g) == \E pr \in UnitPairs : g[pr[1]] # 0 /\ g[pr[1]] = g[pr[2]]

NoDuplicate(g) == ~ HasDuplicate(g)

IsFull(g) == \A k \in Cells : g[k] # 0

\* s keeps every filled cell of g
Extends(s, g) == \A k \in Cells : g[k] # 0 => s[k] = g[k]

IsCompletion(s, g) == IsFull(s) /\ Extends(s, g) /\ NoDuplicate(s)

\* the symbols no filled cell sharing a unit with k holds
Free(g, k) == Sym \ { g[c] : c \in { x \in Cells : x # k /\ SameUnit(x, k) } }

\* a completion of g exists: depth-first over the empty cells in row-major order
RECURSIVE CanComplete(_)
CanComplete(g) ==
  LET empty == { k \in Cells : g[k] = 0 }
  IN  IF empty = {} THEN TRUE
      ELSE LET k == CHOOSE x \in empty : \A y \in empty : x <= y
           IN  \E v \in Free(g, k) : CanComplete([g EXCEPT ![k] = v])

HasCompletion(g) == NoDuplicate(g) /\ CanComplete(g)

InputSimple == Simple(input)
InputValid  == isValidBoard(InputSimple)

(***************************************************************************)
(* C1: on a grid that passes isValidBoard, every grid autoSolveCells       *)
(* passes through after a fill, and every grid it returns, has no symbol   *)
(* twice in a row, column or block.                                        *)
(***************************************************************************)
C1_UniquenessPreserved ==
  /\ pc = "prop" => NoDuplicate(Simple(frame.newBoard))
  /\ (pc = "idle" /\ InputValid)
       => \A i \in DOMAIN results : NoDuplicate(Simple(results[i].grid))

\* a call that has filled at least three cells of a valid grid
C1_Witness ==
  /\ pc = "prop"
  /\ Cardinality({ k \in Cells : frame.newBoard[k].source = "system" }) >= 3

(***************************************************************************)
(* C2: on a grid that passes isValidBoard, a grid returned by solve() has  *)
(* no empty cell, keeps every filled cell of the input, and has no         *)
(* duplicate in any row, column or block.                                  *)
(***************************************************************************)
C2_SolveSound ==
  (pc = "done" /\ out.status = "grid" /\ InputValid)
    => /\ IsFull(out.grid)
       /\ Extends(out.grid, InputSimple)
       /\ NoDuplicate(out.grid)

\* solve() returned a grid for a valid input with at least four empty cells
C2_Witness ==
  /\ pc = "done" /\ out.status = "grid" /\ InputValid
  /\ Cardinality({ k \in Cells : InputSimple[k] = 0 }) >= 4

(***************************************************************************)
(* C3: idempotence.  On a grid that passes isValidBoard, the second call   *)
(* of autoSolveCells returns the cell values and tags of the first.        *)
(***************************************************************************)
C3_Idempotent ==
  (InputValid /\ Len(results) = 2) => results[2].grid = results[1].grid

(***************************************************************************)
(* C4: monotonic fill.  autoSolveCells never changes the value or the tag  *)
(* of a filled cell; it writes only to cells that are empty at the moment  *)
(* of the write, and every cell it writes is tagged system.                *)
(***************************************************************************)
Current == IF pc = "prop" THEN frame.newBoard ELSE board

C4_MonotonicFill ==
  [][ \A k \in Cells :
        /\ Current[k].value # 0 => Current'[k] = Current[k]
        /\ Current'[k] # Current[k]
             => /\ Current[k].value = 0
                /\ Current'[k].value # 0
                /\ Current'[k].source = "system" ]_vars

\* a call that has filled two cells beside cells the user filled
C4_Witness ==
  /\ pc = "prop"
  /\ Cardinality({ k \in Cells : frame.newBoard[k].source = "system" }) >= 2
  /\ \E k \in Cells : frame.newBoard[k].source = "user"

(***************************************************************************)
(* C5: isValidBoard returns false iff some row, column or block holds the  *)
(* same symbol in two different filled cells, and true otherwise, the      *)
(* empty grid included.  (Checked on every board a call is given.)         *)
(***************************************************************************)
C5_ValidityGate ==
  pc = "idle"
    => /\ isValidBoard(Simple(board)) <=> ~ HasDuplicate(Simple(board))
       /\ isValidBoard(Simple(EmptyBoard))

\* a call has been refused on a grid whose only duplicate lies in a column
C5_Witness ==
  /\ pc = "idle" /\ Len(results) >= 1
  /\ HasDuplicate(InputSimple)
  /\ \A k1, k2 \in Cells :
       (k1 < k2 /\ InputSimple[k1] # 0 /\ InputSimple[k1] = InputSimple[k2]
          /\ SameUnit(k1, k2)) => (k1 % 9 = k2 % 9 /\ k1 \div 27 # k2 \div 27)

(***************************************************************************)
(* C6: on a grid with a duplicate, autoSolveCells returns the input board  *)
(* itself, unchanged, and performs no deduction.                           *)
(***************************************************************************)
C6_InvalidReturnedUnchanged ==
  HasDuplicate(InputSimple)
    => /\ pc # "prop"
       /\ board = input
       /\ frame.newBoard = EmptyBoard
       /\ \A i \in DOMAIN results : results[i] = [grid |-> input, same |-> TRUE]

\* both calls on a grid with a duplicate have returned
C6_Witness == HasDuplicate(InputSimple) /\ Len(results) = 2

(***************************************************************************)
(* C7: on a grid with a duplicate, solve() never returns a completed grid: *)
(* it returns null.                                                        *)
(***************************************************************************)
C7_SolveRefusesInvalid ==
  (pc = "done" /\ HasDuplicate(InputSimple)) => out.status = "null"

(***************************************************************************)
(* C8: on a grid that passes isValidBoard, solve() returns null iff the    *)
(* grid has no completion: a returned grid is a completion, and null is    *)
(* returned only when none exists.                                         *)
(***************************************************************************)
C8_SolveComplete ==
  (pc = "done" /\ InputValid)
    => /\ out.status = "grid" => IsCompletion(out.grid, InputSimple)
       /\ out.status = "null" => ~ HasCompletion(InputSimple)
       /\ out.status # "none"

\* solve() returned null on a valid grid with at least ten empty cells
C8_Witness ==
  /\ pc = "done" /\ out.status = "null" /\ InputValid
  /\ Cardinality({ k \in Cells : InputSimple[k] = 0 }) >= 10


(***************************************************************************)
(* Naked and hidden singles, stated on grids: a value is forced at an      *)
(* empty cell when it is the only free symbol of the cell, or when no      *)
(* other empty cell of one of the cell's units has it free.                *)
(***************************************************************************)
Peers == [k \in Cells |-> { x \in Cells : x # k /\ SameUnit(x, k) }]

Units ==
  { { k \in Cells : k \div 9 = i } : i \in Idx }
    \cup { { k \in Cells : k % 9 = i } : i \in Idx }
    \cup { { k \in Cells : ((k \div 9) \div 3) * 3 + ((k % 9) \div 3) = i } : i \in Idx }

FreeMap(g) == [k \in Cells |-> Sym \ { g[c] : c \in Peers[k] }]

ForcedAt(g, free, k) ==
  { v \in free[k] :
      \/ free[k] = {v}
      \/ \E U \in Units :
           k \in U /\ \A x \in U : (x # k /\ g[x] = 0) => v \notin free[x] }

\* all forced values written at once
SinglesStep(g) ==
  LET free == FreeMap(g)
  IN  [k \in Cells |->
         IF g[k] = 0 /\ ForcedAt(g, free, k) # {}
         THEN CHOOSE v \in ForcedAt(g, free, k) : TRUE
         ELSE g[k]]

RECURSIVE SinglesClosure(_)
SinglesClosure(g) ==
  LET h == SinglesStep(g)
  IN  IF h = g THEN g ELSE SinglesClosure(h)

\* g is completed by naked and hidden singles alone
SinglesSolvable(g) ==
  LET h == SinglesClosure(g)
  IN  IsFull(h) /\ NoDuplicate(h)

(***************************************************************************)
(* C9: a valid grid that naked and hidden singles alone complete is        *)
(* returned by one call of autoSolveCells with no empty cell, and with the *)
(* cell values of the grid solve() returns.                                *)
(***************************************************************************)
C9_DeduciblePuzzlesCompleted ==
  (pc = "done" /\ InputValid /\ SinglesSolvable(InputSimple))
    => /\ IsFull(Simple(results[1].grid))
       /\ out.status = "grid"
       /\ Simple(results[1].grid) = out.grid

(***************************************************************************)
(* Complete grids used as the completions S of C10.                        *)
(***************************************************************************)
Grid(t) == [k \in Cells |-> t[k + 1]]

\* Solved with the 4s and 6s of cells (0,3), (0,5), (3,3), (3,5) exchanged
SolvedSwapped ==
  [n \in 1..81 |-> IF n - 1 \in {3, 5, 30, 32} THEN 10 - Solved[n] ELSE Solved[n]]

\* the completion of Sparse
SparseSolved ==
  << 7,3,1,8,4,2,6,9,5,
     2,4,8,9,6,5,3,1,7,
     5,6,9,1,3,7,4,8,2,
     9,5,4,6,7,1,2,3,8,
     1,7,6,3,2,8,5,4,9,
     8,2,3,4,5,9,7,6,1,
     6,1,5,7,8,3,9,2,4,
     4,9,2,5,1,6,8,7,3,
     3,8,7,2,9,4,1,5,6 >>

Completions ==
  { S \in { Grid(Solved), Grid(SolvedSwapped), Grid(SparseSolved) } :
      IsFull(S) /\ NoDuplicate(S) }

(***************************************************************************)
(* C10: for every completion S of a valid grid, each cell autoSolveCells   *)
(* fills holds S's value, and during the run the candidate set of every    *)
(* still-empty cell contains S's value for that cell.  S ranges over the   *)
(* listed complete grids and over the grid solve() returns for the input.  *)
(***************************************************************************)
C10_OnlyForcedValues ==
  \A S \in Completions \cup (IF pc = "done" /\ out.status = "grid" THEN {out.grid} ELSE {}) :
    (Extends(S, InputSimple) /\ IsFull(S) /\ NoDuplicate(S))
      => /\ pc = "prop"
              => /\ Extends(S, Simple(frame.newBoard))
                 /\ \A k \in DOMAIN frame.candidates : S[k] \in frame.candidates[k]
         /\ pc \in {"idle", "done"}
              => \A i \in DOMAIN results : Extends(S, Simple(results[i].grid))

\* a call on a grid with a completion has filled a cell and pruned a candidate
\* that the row, column and block of its cell do not exclude
C10_Witness ==
  /\ pc = "prop"
  /\ \E S \in Completions : Extends(S, InputSimple)
  /\ \E k \in Cells : frame.newBoard[k].source = "system"
  /\ \E k \in DOMAIN frame.candidates :
       frame.candidates[k] # FreeMap(Simple(frame.newBoard))[k]

(***************************************************************************)
(* C11: on a valid grid the loop of autoSolveCells is left because a full  *)
(* round changed nothing, not because the round cap ran out: on return no  *)
(* empty cell has a candidate set of one symbol, and no row, column or     *)
(* block has a missing symbol with exactly one empty cell listing it.      *)
(***************************************************************************)
C11_ExitAtFixedPoint ==
  (pc = "idle" /\ InputValid /\ Len(results) >= 1)
    => /\ ~ frame.iterationChanges
       /\ \A k \in DOMAIN frame.candidates :
            frame.newBoard[k].value = 0 => Cardinality(frame.candidates[k]) # 1
       /\ \A U \in Units : \A num \in Sym :
            (\A k \in U : frame.newBoard[k].value # num)
              => Cardinality({ k \in U : /\ frame.newBoard[k].value = 0
                                         /\ k \in DOMAIN frame.candidates
                                         /\ num \in frame.candidates[k] }) # 1

(***************************************************************************)
(* C12: getValidNumbers(row, col) returns exactly the symbols of 1..9 that *)
(* are in none of the row set, the column set and the set of the block     *)
(* floor(row/3)*3 + floor(col/3); the solver is the same after the call.   *)
(* A call is the evaluation of the operator on the solver of the state, so *)
(* the solver it reads is the solver after it.                             *)
(***************************************************************************)
SolverNow == IF pc = "search" THEN searcher ELSE frame.solver

C12_ValidNumbersExact ==
  pc \in {"prop", "search"}
    => \A row \in Idx, col \in Idx :
         getValidNumbers(SolverNow, row, col)
           = { num \in Sym :
                 /\ num \notin SolverNow.rows[row]
                 /\ num \notin SolverNow.cols[col]
                 /\ num \notin SolverNow.squares[(row \div 3) * 3 + (col \div 3)] }

\* a solver whose row, column and block sets exclude different symbols at a cell
C12_Witness ==
  /\ pc \in {"prop", "search"}
  /\ \E row \in Idx, col \in Idx :
       LET sq == (row \div 3) * 3 + (col \div 3)
       IN  /\ SolverNow.squares[sq] \ (SolverNow.rows[row] \cup SolverNow.cols[col]) # {}
           /\ SolverNow.rows[row] \ (SolverNow.cols[col] \cup SolverNow.squares[sq]) # {}
           /\ SolverNow.cols[col] \ (SolverNow.rows[row] \cup SolverNow.squares[sq]) # {}
           /\ getValidNumbers(SolverNow, row, col) # {}

(***************************************************************************)
(* C14: minimum-remaining-values selection.  findBestCell returns null iff *)
(* the grid has no empty cell; otherwise an empty cell whose number of     *)
(* valid symbols is minimal over all empty cells (a cell with none         *)
(* included), the first such cell in row-major order, with its valid       *)
(* symbols in the order 1..9.  Checked on every result of findBestCell     *)
(* that backtrack() receives.                                              *)
(***************************************************************************)
EmptyCells(solver) == { k \in Cells : solver.board[k] = 0 }

Count(solver, k) ==
  Cardinality(Sym \ (solver.rows[k \div 9] \cup solver.cols[k % 9]
                       \cup solver.squares[((k \div 9) \div 3) * 3 + ((k % 9) \div 3)]))

\* the first cell in row-major order among the empty cells with the fewest valid symbols
FirstMinimal(solver) ==
  CHOOSE k \in EmptyCells(solver) :
    /\ \A x \in EmptyCells(solver) : Count(solver, k) <= Count(solver, x)
    /\ \A x \in EmptyCells(solver) : Count(solver, x) = Count(solver, k) => k <= x

\* the options of every active backtrack() call are in the order 1..9
OptionsOrdered ==
  \A n \in DOMAIN stack :
    \A a, b \in DOMAIN stack[n].options :
      a < b => stack[n].options[a] < stack[n].options[b]

TargetIs(k) ==
  /\ target # NoCell
  /\ Cell(target.row, target.col) = k
  /\ target.options = getValidNumbers(searcher, k \div 9, k % 9)

C14_MinimumRemainingValues ==
  (pc = "search" /\ mode = "call")
    => /\ target = NoCell <=> EmptyCells(searcher) = {}
       /\ EmptyCells(searcher) # {} => TargetIs(FirstMinimal(searcher))
       /\ OptionsOrdered

(***************************************************************************)
(* C14, amended: findBestCell returns null iff the grid has no empty cell; *)
(* otherwise, when some empty cell has exactly one valid symbol and no     *)
(* empty cell before it in row-major order has none, it returns the first  *)
(* cell with exactly one valid symbol (the scan stops there, so a cell     *)
(* without valid symbols further on is not seen); in every other case it   *)
(* returns the first cell in row-major order among those with the fewest   *)
(* valid symbols.  The valid symbols come in the order 1..9.               *)
(***************************************************************************)
OneOption(solver) == { k \in EmptyCells(solver) : Count(solver, k) = 1 }

FirstOne(solver) == CHOOSE k \in OneOption(solver) : \A x \in OneOption(solver) : k <= x

StopsEarly(solver) ==
  /\ OneOption(solver) # {}
  /\ \A x \in EmptyCells(solver) : x < FirstOne(solver) => Count(solver, x) # 0

C14_FirstSingleOrMinimum ==
  (pc = "search" /\ mode = "call")
    => /\ target = NoCell <=> EmptyCells(searcher) = {}
       /\ EmptyCells(searcher) # {}
            => IF StopsEarly(searcher)
               THEN TargetIs(FirstOne(searcher))
               ELSE TargetIs(FirstMinimal(searcher))
       /\ OptionsOrdered

\* findBestCell returned a cell with one valid symbol although a later cell has none
C14_Witness ==
  /\ pc = "search" /\ mode = "call" /\ target # NoCell
  /\ Cardinality(target.options) = 1
  /\ \E x \in EmptyCells(searcher) :
       x > Cell(target.row, target.col) /\ Count(searcher, x) = 0
  /\ Len(stack) >= 1

(***************************************************************************)
(* C15: exact undo.  Whenever a call of backtrack() returns false, the     *)
(* solver's grid and its row, column and block sets are what they were     *)
(* when the call was entered: the input with the placements of the calls   *)
(* still active.  When solve() returns null the solver's grid is the input *)
(* grid, and the caller's input grid is never modified.                    *)
(***************************************************************************)
\* the grid at the entry of the call above the active calls of the stack
PlacedBoard ==
  [k \in Cells |->
     IF \E n \in DOMAIN stack : 9 * stack[n].row + stack[n].col = k
     THEN LET n == CHOOSE x \in DOMAIN stack : 9 * stack[x].row + stack[x].col = k
          IN  stack[n].options[stack[n].i]
     ELSE InputSimple[k]]

\* a grid with the symbols of its rows, columns and blocks
SolverOf(g) ==
  [ board   |-> g,
    rows    |-> [i \in Idx |-> { g[k] : k \in { c \in Cells : c \div 9 = i } } \ {0}],
    cols    |-> [j \in Idx |-> { g[k] : k \in { c \in Cells : c % 9 = j } } \ {0}],
    squares |-> [s \in Idx |->
                   { g[k] : k \in { c \in Cells :
                                      ((c \div 9) \div 3) * 3 + ((c % 9) \div 3) = s } } \ {0}] ]

C15_ExactUndo ==
  /\ [](/\ (pc = "search" /\ mode = "ret") => searcher = SolverOf(PlacedBoard)
        /\ (pc = "done" /\ out.status = "null")
             => /\ searcher = SolverOf(InputSimple)
                /\ out.grid = InputSimple)
  /\ [][input' = input]_vars

\* solve() returned null after placing and undoing: every empty cell of the
\* input had a valid symbol
C15_Witness ==
  /\ pc = "done" /\ out.status = "null"
  /\ EmptyCells(SolverOf(InputSimple)) # {}
  /\ \A k \in EmptyCells(SolverOf(InputSimple)) : Count(SolverOf(InputSimple), k) >= 1

(***************************************************************************)
(* C16: candidate map consistency.  At every point of autoSolveCells on a  *)
(* valid grid the candidate map has an entry exactly for the cells that    *)
(* are empty, no candidate set holds a symbol placed in the row, column or *)
(* block of its cell, and no candidate set gains a symbol: every set is    *)
(* within the set of the step before and within the set at initialization. *)
(***************************************************************************)
C16_CandidateMapConsistent ==
  /\ [](pc = "prop"
          => /\ DOMAIN frame.candidates = { k \in Cells : frame.newBoard[k].value = 0 }
             /\ \A k \in DOMAIN frame.candidates :
                  /\ frame.candidates[k] \subseteq FreeMap(Simple(frame.newBoard))[k]
                  /\ frame.candidates[k] \subseteq FreeMap(Simple(board))[k])
  /\ [][(pc = "prop" /\ pc' = "prop")
          => /\ DOMAIN frame'.candidates \subseteq DOMAIN frame.candidates
             /\ \A k \in DOMAIN frame'.candidates :
                  frame'.candidates[k] \subseteq frame.candidates[k]]_vars

\* a call has filled cells and a peer of a filled cell lost the symbol written
C16_Witness ==
  /\ pc = "prop"
  /\ Cardinality({ k \in Cells : frame.newBoard[k].source = "system" }) >= 2
  /\ \E k \in DOMAIN frame.candidates :
       \E c \in Peers[k] :
         /\ frame.newBoard[c].source = "system"
         /\ frame.newBoard[c].value \in FreeMap(Simple(board))[k]
         /\ frame.newBoard[c].value \notin frame.candidates[k]

(***************************************************************************)
(* Reordered rounds.  A run of autoSolveCells on the input in the code's   *)
(* order is followed by a run on the same input whose rounds apply the     *)
(* three techniques (naked singles; hidden singles in rows, columns and    *)
(* squares; box/line reduction) in the order `order`.                      *)
(***************************************************************************)
Orders ==
  { << 0, 1, 2, 3, 4 >>, << 0, 4, 1, 2, 3 >>, << 1, 2, 3, 0, 4 >>,
    << 1, 2, 3, 4, 0 >>, << 4, 0, 1, 2, 3 >>, << 4, 1, 2, 3, 0 >> }

\* the loop iteration of the code that is the q-th of a round in order ord
PositionIn(ord, q) == 81 * ord[(q \div 81) + 1] + (q % 81)

RECURSIVE NextEffectiveIn(_, _, _)
NextEffectiveIn(ord, st, q) ==
  IF q >= RoundEnd THEN RoundEnd
  ELSE LET stretch == q..(((q \div 9) + 1) * 9 - 1)
       IN  IF \E x \in stretch : Fires(st, PositionIn(ord, x))
           THEN CHOOSE x \in stretch :
                  /\ Fires(st, PositionIn(ord, x))
                  /\ \A y \in stretch : y < x => ~ Fires(st, PositionIn(ord, y))
           ELSE NextEffectiveIn(ord, st, ((q \div 9) + 1) * 9)

\* the grids of the reordered runs: valid grids, one edit at most
OrderInputs ==
  { b \in { Tagged(Edited(Puzzles[i], E)) :
              i \in 1..Len(Puzzles), E \in { X \in EditSets : Cardinality(X) <= 1 } }
            \cup { Tagged(Edited(Fixed[i], {})) : i \in 1..Len(Fixed) } :
      isValidBoard(boardWithSourceToSimple(b)) }

OrderInit ==
  /\ input \in OrderInputs
  /\ order \in Orders
  /\ board = input
  /\ pc = "idle"
  /\ results = << >>
  /\ frame = [NewFrame(EmptyBoard) EXCEPT !.iterationChanges = FALSE]
  /\ searcher = NewSolver(boardWithSourceToSimple(EmptyBoard))
  /\ stack = << >>
  /\ mode = "call"
  /\ target = NoCell
  /\ out = [status |-> "none", grid |-> boardWithSourceToSimple(EmptyBoard)]
  /\ timer = FALSE
  /\ edits = 0

\* autoSolveCells(input) in the code's order, up to the loop head
OrderCall ==
  /\ pc = "idle" /\ Len(results) = 0
  /\ frame' = NewFrame(input)
  /\ pc' = "prop"
  /\ UNCHANGED << input, board, results, searchVars >>

\* its return
OrderReturn ==
  /\ pc = "prop" /\ frame.pos = RoundEnd
  /\ ~ (frame.iterationChanges /\ frame.maxIterations > 0)
  /\ results' = Append(results, [grid |-> IF frame.hasChanges THEN frame.newBoard ELSE input,
                                 same |-> ~ frame.hasChanges])
  /\ pc' = "idle"
  /\ UNCHANGED << input, board, frame, searchVars >>

\* the reordered run on the same input, up to the loop head
AltCall ==
  /\ pc = "idle" /\ Len(results) = 1
  /\ frame' = NewFrame(input)
  /\ pc' = "alt"
  /\ UNCHANGED << input, board, results, searchVars >>

\* the loop head of the reordered run, when the test passes
AltRound ==
  /\ pc = "alt" /\ frame.pos = RoundEnd
  /\ frame.iterationChanges /\ frame.maxIterations > 0
  /\ LET entered == [frame EXCEPT !.iterationChanges = FALSE,
                                   !.maxIterations = @ - 1]
     IN  frame' = [entered EXCEPT !.pos = NextEffectiveIn(order, entered, 0)]
  /\ UNCHANGED << pc, input, board, results, searchVars >>

\* the next iteration of the reordered round that changes something
AltStep ==
  /\ pc = "alt" /\ frame.pos < RoundEnd
  /\ LET after == TechniqueAt(frame, PositionIn(order, frame.pos))
     IN  frame' = [after EXCEPT !.pos = NextEffectiveIn(order, after, frame.pos + 1)]
  /\ UNCHANGED << pc, input, board, results, searchVars >>

\* the return of the reordered run
AltReturn ==
  /\ pc = "alt" /\ frame.pos = RoundEnd
  /\ ~ (frame.iterationChanges /\ frame.maxIterations > 0)
  /\ results' = Append(results, [grid |-> IF frame.hasChanges THEN frame.newBoard ELSE input,
                                 same |-> ~ frame.hasChanges])
  /\ pc' = "idle"
  /\ UNCHANGED << input, board, frame, searchVars >>

OrderNext ==
  \/ OrderCall
  \/ NextRound
  \/ NakedSingle
  \/ HiddenSingle
  \/ BoxLineReduction
  \/ OrderReturn
  \/ AltCall
  \/ AltRound
  \/ AltStep
  \/ AltReturn

OrderSpec == OrderInit /\ [][OrderNext]_vars

(***************************************************************************)
(* C13: order independence.  On a valid grid, rounds that apply the three  *)
(* techniques in any order end with the same filled grid as the rounds of  *)
(* the code's order.                                                       *)
(***************************************************************************)
C13_OrderIndependent ==
  (pc = "idle" /\ Len(results) = 2)
    => Simple(results[2].grid) = Simple(results[1].grid)

(***************************************************************************)
(* autoSolveCells as one function of the board: the frame run to the loop  *)
(* exit.                                                                   *)
(***************************************************************************)
RECURSIVE RunFrame(_)
RunFrame(st) ==
  IF st.pos < RoundEnd THEN RunFrame(Advanced(st))
  ELSE IF st.iterationChanges /\ st.maxIterations > 0
       THEN LET entered == [st EXCEPT !.iterationChanges = FALSE, !.maxIterations = @ - 1]
            IN  RunFrame([entered EXCEPT !.pos = NextEffective(entered, 0)])
       ELSE st

autoSolveCells(b) ==
  IF ~ isValidBoard(boardWithSourceToSimple(b)) THEN b
  ELSE LET st == RunFrame(NewFrame(b))
       IN  IF st.hasChanges THEN st.newBoard ELSE b

(***************************************************************************)
(* The host (SudokuBoard).  `board` is the state of useState; the effect   *)
(* on `board` arms a 100 ms timer whenever setBoard stores another object  *)
(* (the pending timer is cleared first); the timer runs autoSolveStep,     *)
(* which stores what autoSolveCells returns.  Handlers run to completion,  *)
(* so an edit happens only between two of them.                            *)
(***************************************************************************)
MaxHostEdits == 2

\* boards the user has typed
RowBoard ==
  [n \in 1..81 |-> IF n <= 8 THEN n ELSE 0]

OnesBoard ==
  [n \in 1..81 |-> IF n - 1 \in {3, 15, 27, 55} THEN 1 ELSE 0]

BlockBoard ==
  [n \in 1..81 |-> IF n - 1 \in {9, 10, 11} THEN n - 8 ELSE IF n - 1 = 24 THEN 1 ELSE 0]

HostBoards ==
  { EmptyBoard, Tagged(Grid(RowBoard)), Tagged(Grid(OnesBoard)), Tagged(Grid(BlockBoard)) }

\* the edits offered: << cell, value >>, value 0 for the empty string
HostEdits == { <<7, 0>>, <<7, 9>>, <<8, 0>>, <<3, 0>>, <<23, 1>>, <<24, 0>> }

HostInit ==
  /\ board \in HostBoards
  /\ input = board
  /\ pc = "idle"
  /\ results = << >>
  /\ frame = [NewFrame(EmptyBoard) EXCEPT !.iterationChanges = FALSE]
  /\ searcher = NewSolver(boardWithSourceToSimple(EmptyBoard))
  /\ stack = << >>
  /\ mode = "call"
  /\ target = NoCell
  /\ out = [status |-> "none", grid |-> boardWithSourceToSimple(EmptyBoard)]
  /\ order = CodeOrder
  /\ timer = TRUE
  /\ edits = 0

hostRest == << input, results, searcher, stack, mode, target, out, order >>

\* handleCellChange(row, col, value) with value '' or '1'..'9'
handleCellChange(k, value) ==
  /\ pc = "idle" /\ edits < MaxHostEdits
  /\ edits' = edits + 1
  /\ IF board[k].source = "system"
     THEN UNCHANGED << board, timer >>
     ELSE /\ board' = [board EXCEPT ![k] = IF value = 0 THEN SudokuCell(0, "null")
                                           ELSE SudokuCell(value, "user")]
          /\ timer' = TRUE
  /\ UNCHANGED << pc, frame, hostRest >>

UserEdit == \E e \in HostEdits : handleCellChange(e[1], e[2])

\* the pending timer fires and calls autoSolveStep, which calls setBoard
TimerFires ==
  /\ pc = "idle" /\ timer
  /\ pc' = "step"
  /\ timer' = FALSE
  /\ UNCHANGED << board, frame, edits, hostRest >>

\* the updater calls autoSolveCells on a board that fails isValidBoard:
\* autoSolveCells returns prev and setBoard keeps the state
HostStepRejected ==
  /\ pc = "step"
  /\ ~ isValidBoard(boardWithSourceToSimple(board))
  /\ pc' = "idle"
  /\ UNCHANGED << board, frame, timer, edits, hostRest >>

\* the updater calls autoSolveCells on a valid board: up to the loop head
HostStepCall ==
  /\ pc = "step"
  /\ isValidBoard(boardWithSourceToSimple(board))
  /\ frame' = NewFrame(board)
  /\ pc' = "prop"
  /\ UNCHANGED << board, timer, edits, hostRest >>

\* autoSolveCells returns and setBoard stores the result: another object arms the timer
HostStepReturn ==
  /\ pc = "prop" /\ frame.pos = RoundEnd
  /\ ~ (frame.iterationChanges /\ frame.maxIterations > 0)
  /\ board' = IF frame.hasChanges THEN frame.newBoard ELSE board
  /\ timer' = frame.hasChanges
  /\ pc' = "idle"
  /\ UNCHANGED << frame, edits, hostRest >>

HostNext ==
  \/ UserEdit
  \/ TimerFires
  \/ HostStepRejected
  \/ HostStepCall
  \/ NextRound
  \/ NakedSingle
  \/ HiddenSingle
  \/ BoxLineReduction
  \/ HostStepReturn

\* a pending timer fires unless an edit replaces it
HostSpec ==
  /\ HostInit
  /\ [][HostNext]_vars
  /\ WF_vars(TimerFires)

(***************************************************************************)
(* C17: host quiescence.  After the last user edit the auto-solve loop     *)
(* stops after finitely many steps: from some point on no timer is ever   *)
(* pending again.  In particular a call that fills no cell returns the     *)
(* board it was given, so its return arms no timer.                        *)
(***************************************************************************)
C17_HostQuiescence ==
  /\ <>[](~ timer)
  /\ [][(pc = "prop" /\ pc' = "idle"
           /\ boardWithSourceToSimple(frame.newBoard) = boardWithSourceToSimple(board))
          => ~ timer']_vars

(***************************************************************************)
(* C18: system cells are never stale.  After any user edits and auto-solve *)
(* steps, in every state where no step runs or is pending and the cells    *)
(* tagged user alone form a valid grid, the whole board is valid and every *)
(* cell tagged system holds the value propagation derives from the cells   *)
(* tagged user alone.                                                      *)
(***************************************************************************)
UserOnly(b) ==
  [k \in Cells |-> IF b[k].source = "user" THEN b[k] ELSE SudokuCell(0, "null")]

\* autoSolveCells repeated until it fills nothing more
RECURSIVE Propagated(_)
Propagated(b) ==
  LET r == autoSolveCells(b)
  IN  IF boardWithSourceToSimple(r) = boardWithSourceToSimple(b) THEN b ELSE Propagated(r)

C18_SystemCellsNeverStale ==
  (pc = "idle" /\ ~ timer /\ NoDuplicate(Simple(UserOnly(board))))
    => /\ NoDuplicate(Simple(board))
       /\ \A k \in Cells :
            board[k].source = "system"
              => Propagated(UserOnly(board))[k].value = board[k].value

=============================================================================
